---- MODULE Spec2Model ----
(***************************************************************************)
(* accounts.models.CustomUser: the user table of the project.              *)
(*                                                                         *)
(*   class CustomUser(AbstractUser):                                       *)
(*       email = models.EmailField(unique=True)                            *)
(*       bio   = models.TextField(blank=True, null=True)                   *)
(*       def __str__(self): return self.username                           *)
(*                                                                         *)
(* The state is the table of stored rows.  The operations are the ones     *)
(* the declared field options give a meaning to: a row is written either   *)
(* after Model.full_clean() (what model forms do) or by Model.save()       *)
(* alone (what objects.create() and create_user() do); only full_clean()   *)
(* runs field validators and the blank check, only the database enforces   *)
(* NOT NULL and UNIQUE at write time.                                      *)
(*                                                                         *)
(* Text values are sequences of one-character strings, so that the e-mail  *)
(* validator is computed on the characters.  E-mail inputs are taken in    *)
(* the form normalize_email leaves them in (lower-case domain).            *)
(***************************************************************************)
EXTENDS Naturals, FiniteSets, Sequences

VARIABLES users, nextId, op, err, result

vars == <<users, nextId, op, err, result>>

\* Largest primary key the table hands out.
MaxId == 2

(***************************************************************************)
(* Values                                                                  *)
(***************************************************************************)
\* Python None / SQL NULL.
NULL == <<"NULL">>

\* A keyword argument that is not passed to the constructor.
ABSENT == <<"ABSENT">>

Alice == <<"a", "l", "i", "c", "e">>
Bob == <<"b", "o", "b">>
Usernames == {Alice, Bob}

AliceMail == <<"a", "@", "x", ".", "i", "o">>
BobMail == <<"b", "@", "x", ".", "i", "o">>
NoTldMail == <<"a", "@", "x">>
EmptyStr == <<>>

\* What a caller may assign to email, and what it may pass to the constructor.
EmailValues == {AliceMail, BobMail, NoTldMail, EmptyStr, NULL}
EmailArgs == EmailValues \cup {ABSENT}

Hi == <<"h", "i">>
BioValues == {Hi, EmptyStr, NULL}
BioArgs == {Hi, EmptyStr, ABSENT}

\* django.core.validators.EMPTY_VALUES restricted to text fields.
EmptyValues == {NULL, EmptyStr}

(***************************************************************************)
(* The declared fields and their options                                   *)
(***************************************************************************)
\* username is inherited from AbstractUser: unique, required.
UsernameUnique == TRUE

\* email = models.EmailField(unique=True): blank and null keep their
\* defaults (False, False).
EmailUniqueOff == FALSE
EmailUnique == TRUE

EmailBlankOn == TRUE
EmailBlank == FALSE

EmailNull == FALSE

\* The field class: an EmailField carries the e-mail validator, a plain
\* CharField carries none.
EmailIsCharField == FALSE
EmailIsEmailField == TRUE

\* bio = models.TextField(blank=True, null=True): no unique option.
BioUniqueOn == TRUE
BioUnique == FALSE

BioBlankOff == FALSE
BioBlank == TRUE

BioNull == TRUE

FieldNames == {"username", "email", "bio"}

Unique(f) ==
    CASE f = "username" -> UsernameUnique
      [] f = "email" -> EmailUnique
      [] f = "bio" -> BioUnique

Blank(f) ==
    CASE f = "username" -> FALSE
      [] f = "email" -> EmailBlank
      [] f = "bio" -> BioBlank

Null(f) ==
    CASE f = "username" -> FALSE
      [] f = "email" -> EmailNull
      [] f = "bio" -> BioNull

(***************************************************************************)
(* EmailField's validator (django.core.validators.EmailValidator)          *)
(***************************************************************************)
Letters == {"a", "b", "x", "i", "o"}

\* Position of the last c in s, 0 when there is none (str.rsplit(c, 1)).
LastIndexOf(s, c) ==
    LET at == {i \in 1..Len(s) : s[i] = c}
    IN  IF at = {} THEN 0 ELSE CHOOSE i \in at : \A j \in at : j <= i

\* user_regex: letters separated by single dots.
IsDotAtom(s) ==
    /\ Len(s) > 0
    /\ \A i \in 1..Len(s) : s[i] \in Letters \cup {"."}
    /\ s[1] # "."
    /\ s[Len(s)] # "."
    /\ \A i \in 1..(Len(s) - 1) : ~(s[i] = "." /\ s[i + 1] = ".")

\* domain_regex: one or more labels, each followed by a dot, then a
\* top-level label of two characters or more.
IsDomain(s) ==
    /\ IsDotAtom(s)
    /\ LastIndexOf(s, ".") > 0
    /\ Len(s) - LastIndexOf(s, ".") >= 2

\* TRUE when the validator raises nothing.
EmailValidator(value) ==
    /\ value # NULL
    /\ Len(value) > 0
    /\ LastIndexOf(value, "@") > 0
    /\ LET at == LastIndexOf(value, "@")
       IN  /\ IsDotAtom(SubSeq(value, 1, at - 1))
           /\ IsDomain(SubSeq(value, at + 1, Len(value)))

(***************************************************************************)
(* Instances                                                               *)
(***************************************************************************)
\* Field.get_default(): a text field that is not nullable defaults to the
\* empty string, a nullable one to None.
Default(f) == IF Null(f) THEN NULL ELSE EmptyStr

\* CustomUser(username=..., email=..., bio=...): Model.__init__.
Construct(username, email, bio) ==
    [username |-> username,
     email |-> IF email = ABSENT THEN Default("email") ELSE email,
     bio |-> IF bio = ABSENT THEN Default("bio") ELSE bio]

\* The fields this model declares, and what can be assigned to each.
Declared == {"email", "bio"}

Values(f) ==
    CASE f = "email" -> EmailValues
      [] f = "bio" -> BioValues

\* Counts the row itself as a holder.
HoldersWithSelf(us, pk, f, value) ==
    {q \in DOMAIN us : us[q][f] = value}

\* Rows other than pk holding value in column f (pk = 0: a row being added).
Holders(us, pk, f, value) ==
    {q \in DOMAIN us \ {pk} : us[q][f] = value}

(***************************************************************************)
(* Model.full_clean(): clean_fields() then validate_unique()               *)
(***************************************************************************)
\* Model.clean_fields(): a blank-able field holding an empty value is
\* skipped; otherwise Field.clean() = validate() then run_validators().
CleanFields(inst) ==
    {<<f, "null">> : f \in {g \in FieldNames :
        /\ ~(Blank(g) /\ inst[g] \in EmptyValues)
        /\ inst[g] = NULL /\ ~Null(g)}}
    \cup
    {<<f, "blank">> : f \in {g \in FieldNames :
        /\ ~(Blank(g) /\ inst[g] \in EmptyValues)
        /\ ~(inst[g] = NULL /\ ~Null(g))
        /\ ~Blank(g) /\ inst[g] \in EmptyValues}}
    \cup
    {<<f, "invalid">> : f \in {g \in {"email"} :
        /\ EmailIsEmailField
        /\ inst[g] \notin EmptyValues
        /\ ~EmailValidator(inst[g])}}

\* Model.validate_unique(exclude): fields that failed clean_fields() are
\* excluded, a None value is not looked up, the row itself is left out.
ValidateUnique(inst, pk, us, exclude) ==
    {<<f, "unique">> : f \in {g \in FieldNames \ exclude :
        /\ Unique(g)
        /\ inst[g] # NULL
        /\ Holders(us, pk, g, inst[g]) # {}}}

FullClean(inst, pk, us) ==
    LET bad == CleanFields(inst)
    IN  bad \cup ValidateUnique(inst, pk, us, {e[1] : e \in bad})

(***************************************************************************)
(* The table's constraints, checked by the database when a row is written  *)
(***************************************************************************)
\* A table created without its UNIQUE indexes.
DbViolationsNotNullOnly(inst, pk, us) ==
    {<<f, "null">> : f \in {g \in FieldNames : ~Null(g) /\ inst[g] = NULL}}

DbViolations(inst, pk, us) ==
    {<<f, "null">> : f \in {g \in FieldNames : ~Null(g) /\ inst[g] = NULL}}
    \cup
    {<<f, "unique">> : f \in {g \in FieldNames :
        /\ Unique(g)
        /\ inst[g] # NULL
        /\ Holders(us, pk, g, inst[g]) # {}}}

NoError == [kind |-> "none", errors |-> {}]

ValidationError(errors) == [kind |-> "ValidationError", errors |-> errors]

\* The database reports one violated constraint.
IntegrityError(e) == [kind |-> "IntegrityError", errors |-> {e}]

TypeError == [kind |-> "TypeError", errors |-> {}]

\* What an operation that returns nothing leaves in result.
NoResult == NULL

Put(us, pk, inst) == [q \in DOMAIN us \cup {pk} |-> IF q = pk THEN inst ELSE us[q]]

\* Keeps the row (a delete that only flags it).
RemoveKeeping(us, pk) == us

Remove(us, pk) == [q \in DOMAIN us \ {pk} |-> us[q]]

Emails(us) == {us[q].email : q \in DOMAIN us}

\* Model.save() of inst as row pk (pk = 0: INSERT under the next key).
Save(inst, pk) ==
    LET bad == DbViolations(inst, pk, users)
    IN  IF bad # {}
        THEN /\ \E e \in bad : err' = IntegrityError(e)
             /\ UNCHANGED <<users, nextId>>
        ELSE /\ err' = NoError
             /\ users' = Put(users, IF pk = 0 THEN nextId ELSE pk, inst)
             /\ nextId' = IF pk = 0 THEN nextId + 1 ELSE nextId

\* full_clean() and, when it raises nothing, save().
CleanThenSave(inst, pk) ==
    LET bad == FullClean(inst, pk, users)
    IN  IF bad # {}
        THEN /\ err' = ValidationError(bad)
             /\ UNCHANGED <<users, nextId>>
        ELSE Save(inst, pk)

(***************************************************************************)
(* Operations                                                              *)
(***************************************************************************)
\* op records the last operation: its name, the row and field it was applied
\* to, the instance it worked on, and in was the email the row held before it
\* (for a create: its email when the operation just before it released that
\* very email, None otherwise).
Freed ==
    IF op.name = "delete"
    THEN op.was
    ELSE IF /\ op.name \in {"clean_update", "save_update"}
            /\ err.kind = "none"
            /\ op.inst.email # op.was
         THEN op.was
         ELSE NULL

TakenOver(inst) == IF inst.email = Freed THEN Freed ELSE NULL

Init ==
    /\ users = <<>>
    /\ nextId = 1
    /\ op = [name |-> "init", pk |-> 0, field |-> "", was |-> NULL,
             inst |-> Construct(Alice, ABSENT, ABSENT)]
    /\ err = NoError
    /\ result = NoResult

\* user = CustomUser(...); user.full_clean(); user.save()
CleanCreate(username, email, bio) ==
    /\ nextId <= MaxId
    /\ op' = [name |-> "clean_create", pk |-> 0, field |-> "",
              was |-> TakenOver(Construct(username, email, bio)),
              inst |-> Construct(username, email, bio)]
    /\ CleanThenSave(Construct(username, email, bio), 0)
    /\ result' = NoResult

\* CustomUser.objects.create(...): save() with no validation.
SaveCreate(username, email, bio) ==
    /\ nextId <= MaxId
    /\ op' = [name |-> "save_create", pk |-> 0, field |-> "",
              was |-> TakenOver(Construct(username, email, bio)),
              inst |-> Construct(username, email, bio)]
    /\ Save(Construct(username, email, bio), 0)
    /\ result' = NoResult

\* user.<f> = value; user.full_clean(); user.save()
CleanUpdate(pk, f, value) ==
    /\ pk \in DOMAIN users
    /\ op' = [name |-> "clean_update", pk |-> pk, field |-> f, was |-> users[pk].email,
              inst |-> [users[pk] EXCEPT ![f] = value]]
    /\ CleanThenSave([users[pk] EXCEPT ![f] = value], pk)
    /\ result' = NoResult

\* user.<f> = value; user.save()
SaveUpdate(pk, f, value) ==
    /\ pk \in DOMAIN users
    /\ op' = [name |-> "save_update", pk |-> pk, field |-> f, was |-> users[pk].email,
              inst |-> [users[pk] EXCEPT ![f] = value]]
    /\ Save([users[pk] EXCEPT ![f] = value], pk)
    /\ result' = NoResult

\* user.delete()
Delete(pk) ==
    /\ pk \in DOMAIN users
    /\ op' = [name |-> "delete", pk |-> pk, field |-> "", was |-> users[pk].email,
              inst |-> users[pk]]
    /\ users' = Remove(users, pk)
    /\ err' = NoError
    /\ result' = NoResult
    /\ UNCHANGED nextId

\* Returns another column, which may hold None.
StrBio(self) == self.bio

\* Returns the login e-mail instead.
StrEmail(self) == self.email

\* CustomUser.__str__
Str(self) == self.username

\* str(user): Python raises TypeError when __str__ returns a non-string.
Render(pk) ==
    /\ pk \in DOMAIN users
    /\ op' = [name |-> "render", pk |-> pk, field |-> "", was |-> users[pk].email,
              inst |-> users[pk]]
    /\ IF Str(users[pk]) = NULL
       THEN err' = TypeError /\ result' = NoResult
       ELSE err' = NoError /\ result' = Str(users[pk])
    /\ UNCHANGED <<users, nextId>>

Next ==
    \/ \E u \in Usernames, e \in EmailArgs, b \in BioArgs : CleanCreate(u, e, b)
    \/ \E u \in Usernames, e \in EmailArgs, b \in BioArgs : SaveCreate(u, e, b)
    \/ \E pk \in 1..MaxId, f \in Declared : \E v \in Values(f) : CleanUpdate(pk, f, v)
    \/ \E pk \in 1..MaxId, f \in Declared : \E v \in Values(f) : SaveUpdate(pk, f, v)
    \/ \E pk \in 1..MaxId : Delete(pk)
    \/ \E pk \in 1..MaxId : Render(pk)

Spec == Init /\ [][Next]_vars

(***************************************************************************)
(* Properties                                                              *)
(***************************************************************************)
Creates == {"clean_create", "save_create"}
Updates == {"clean_update", "save_update"}
Failures == {"ValidationError", "IntegrityError"}

\* The inputs that are well-formed addresses, and the one that is not.
WellFormedMails == {AliceMail, BobMail}
MalformedMails == {NoTldMail}

UsernamesOf(us) == {us[q].username : q \in DOMAIN us}

\* The step wrote inst as a new row and left the others alone.
Inserted(inst) ==
    /\ err' = NoError
    /\ \E pk \in DOMAIN users' \ DOMAIN users : users'[pk] = inst
    /\ \A q \in DOMAIN users : q \in DOMAIN users' /\ users'[q] = users[q]

\* C1: in every reachable state no two distinct stored rows have the same
\* email.
EmailIsUnique ==
    \A p \in DOMAIN users : \A q \in DOMAIN users :
        users[p].email = users[q].email => p = q

\* Two rows are stored and the last operation changed the email of one.
EmailIsUniqueWitness ==
    /\ Cardinality(DOMAIN users) = 2
    /\ op.name \in Updates
    /\ op.field = "email"
    /\ err = NoError
    /\ op.was # op.inst.email

\* C2: a create whose email is held by a stored row is rejected with a
\* validation or integrity error and leaves the table as it was.
DuplicateEmailCreateRejected ==
    [][(op'.name \in Creates /\ op'.inst.email \in Emails(users))
        => (err'.kind \in Failures /\ users' = users)]_vars

\* The database refused an INSERT for the email's uniqueness.
DuplicateEmailCreateWitness ==
    /\ op.name = "save_create"
    /\ err = IntegrityError(<<"email", "unique">>)
    /\ op.inst.email = AliceMail
    /\ op.inst.username = Bob

\* C3 as stated: every create with a malformed email fails validation and
\* stores nothing.
MalformedCreateFailsValidation ==
    [][(op'.name \in Creates /\ op'.inst.email \in MalformedMails)
        => (err'.kind = "ValidationError" /\ users' = users)]_vars

\* C3 amended: a create that runs full_clean() with a malformed email fails
\* validation on the email before anything is written; a create by save()
\* alone raises no validation error and stores the row when the username and
\* the email are held by no stored row.
MalformedCreateFailsFullClean ==
    [][/\ (op'.name = "clean_create" /\ op'.inst.email \in MalformedMails)
            => /\ err'.kind = "ValidationError"
               /\ <<"email", "invalid">> \in err'.errors
               /\ users' = users
       /\ (op'.name = "save_create" /\ op'.inst.email \in MalformedMails)
            => /\ err'.kind # "ValidationError"
               /\ (/\ op'.inst.username \notin UsernamesOf(users)
                   /\ op'.inst.email \notin Emails(users))
                    => Inserted(op'.inst)]_vars

\* full_clean() refused a malformed email that no row holds.
MalformedCreateWitness ==
    /\ op.name = "clean_create"
    /\ op.inst.email \in MalformedMails
    /\ err = ValidationError({<<"email", "invalid">>})
    /\ op.inst.email \notin Emails(users)

\* C4: a create with no bio (absent, None or empty), a username no row
\* holds and a well-formed email no row holds succeeds and stores the row.
BiolessCreateSucceeds ==
    [][(/\ op'.name \in Creates
        /\ op'.inst.bio \in EmptyValues
        /\ op'.inst.username \notin UsernamesOf(users)
        /\ op'.inst.email \in WellFormedMails \ Emails(users))
        => Inserted(op'.inst)]_vars

\* A validated create without bio went through next to another row.
BiolessCreateWitness ==
    /\ op.name = "clean_create"
    /\ err = NoError
    /\ op.inst.bio = NULL
    /\ Cardinality(DOMAIN users) = 2
    /\ \E pk \in DOMAIN users : users[pk] = op.inst

\* C5: str(user) is exactly the username of the rendered row, whatever its
\* email and bio.
StrIsUsername ==
    op.name = "render" =>
        /\ op.pk \in DOMAIN users
        /\ result = users[op.pk].username

\* A row with an empty email and no bio was rendered.
StrIsUsernameWitness ==
    /\ op.name = "render"
    /\ result = Bob
    /\ users[op.pk].email = EmptyStr
    /\ users[op.pk].bio = NULL

\* C6: str(user) changes no row, adds or removes none, and raises nothing.
RenderHasNoEffect ==
    [][op'.name = "render"
        => (users' = users /\ nextId' = nextId /\ err' = NoError)]_vars

\* A row was rendered while two rows are stored.
RenderHasNoEffectWitness ==
    /\ op.name = "render"
    /\ err = NoError
    /\ Cardinality(DOMAIN users) = 2
    /\ users[op.pk].bio = NULL

\* C7 as stated: every create with a missing email is rejected by field
\* validation, so no stored row has a missing email.
MissingEmailNeverStored ==
    [][/\ (op'.name \in Creates /\ op'.inst.email \in EmptyValues)
            => (err'.kind = "ValidationError" /\ users' = users)
       /\ \A pk \in DOMAIN users' : users'[pk].email \notin EmptyValues]_vars

\* C7 amended: a create that runs full_clean() with a missing email is
\* rejected by field validation before anything is written; a create by
\* save() alone is refused by the database only when the email is None, and
\* stores an absent or empty email as the empty string when the username
\* and the empty email are held by no stored row; no stored row has a None
\* email.
MissingEmailRejectedByFullClean ==
    [][/\ (op'.name = "clean_create" /\ op'.inst.email \in EmptyValues)
            => /\ err'.kind = "ValidationError"
               /\ \E c \in {"null", "blank"} : <<"email", c>> \in err'.errors
               /\ users' = users
       /\ (op'.name = "save_create" /\ op'.inst.email = NULL)
            => (err'.kind = "IntegrityError" /\ users' = users)
       /\ (/\ op'.name = "save_create"
           /\ op'.inst.email = EmptyStr
           /\ op'.inst.username \notin UsernamesOf(users)
           /\ EmptyStr \notin Emails(users))
            => Inserted(op'.inst)
       /\ \A pk \in DOMAIN users' : users'[pk].email # NULL]_vars

\* full_clean() refused an empty email.
MissingEmailWitness ==
    /\ op.name = "clean_create"
    /\ op.inst.email = EmptyStr
    /\ err = ValidationError({<<"email", "blank">>})

\* C8: an update of a row's email to a value another row holds is rejected
\* and both rows keep their emails; an update to the row's own email or to
\* a value no other row holds is never refused for uniqueness: save()
\* accepts it whenever the value is not None, full_clean() and save()
\* whenever it is a well-formed address.
EmailUpdateRespectsUniqueness ==
    [][(op'.name \in Updates /\ op'.field = "email" /\ op'.pk \in DOMAIN users)
        => LET v == op'.inst.email
               others == {q \in DOMAIN users : q # op'.pk /\ users[q].email = v}
           IN  /\ others # {}
                    => (err'.kind \in Failures /\ users' = users)
               /\ others = {}
                    => /\ <<"email", "unique">> \notin err'.errors
                       /\ (v # NULL /\ op'.name = "save_update")
                            => /\ err' = NoError
                               /\ users' = [users EXCEPT ![op'.pk].email = v]
                       /\ v \in WellFormedMails
                            => /\ err' = NoError
                               /\ users' = [users EXCEPT ![op'.pk].email = v]]_vars

\* The database refused an UPDATE to the email of the other row.
EmailUpdateWitness ==
    /\ op.name = "save_update"
    /\ op.field = "email"
    /\ err = IntegrityError(<<"email", "unique">>)
    /\ \E q \in DOMAIN users : q # op.pk /\ users[q].email = op.inst.email

\* C9: uniqueness ranges over the stored rows only: right after a row is
\* deleted, or its email changed, a create with the email it held succeeds
\* (given a username no row holds; under full_clean(), given the email is a
\* well-formed address).
ReleasedEmailCanBeReused ==
    [][(/\ op'.name \in Creates
        /\ Freed # NULL
        /\ op'.inst.email = Freed
        /\ op'.inst.username \notin UsernamesOf(users)
        /\ op'.name = "clean_create" => Freed \in WellFormedMails)
        => Inserted(op'.inst)]_vars

\* A create took over the email the operation before it had released.
ReleasedEmailWitness ==
    /\ op.name \in Creates
    /\ op.was # NULL
    /\ op.was = op.inst.email
    /\ err = NoError
    /\ \E pk \in DOMAIN users : users[pk] = op.inst

\* C10: no create or update is ever rejected because of its bio.
BioNeverRejected ==
    \A e \in err.errors : e[1] # "bio"

\* Two rows hold the same non-empty bio, the second one set by an update.
BioNeverRejectedWitness ==
    /\ op.name \in Updates
    /\ op.field = "bio"
    /\ err = NoError
    /\ \E p \in DOMAIN users : \E q \in DOMAIN users :
        p # q /\ users[p].bio = Hi /\ users[q].bio = Hi

====
